---- MODULE Spec2Model ----
(***************************************************************************)
(* Row reduction (row_reduction.py): forward phase to echelon form,        *)
(* backward phase to reduced echelon form, and the solution flowchart on   *)
(* an augmented matrix, over exact fractions.                              *)
(*                                                                         *)
(* A matrix is a sequence of rows, a row a sequence of fractions, a        *)
(* fraction a pair <<numerator, denominator>> in lowest terms with a       *)
(* positive denominator.  Row and column indices held in the state are     *)
(* 0-based as in the program; At(m, r, c) reads m[r][c].                   *)
(***************************************************************************)
EXTENDS Integers, Sequences, FiniteSets

VARIABLES
    call,        \* the function that was called: "row_reduce" or "backward_phase"
    input,       \* the grid of integers the caller passed
    matrix,      \* the list of lists of Fraction being reduced in place
    pc,          \* position in the called function
    cols,        \* local `cols` of the running phase
    pivot_row,   \* forward_phase: cursor row; backward_phase: row of the current pivot
    col,         \* forward_phase: loop variable; backward_phase: pivot_col
    r,           \* backward_phase: loop variable of step 5-2
    pivots,      \* backward_phase: result of find_pivots(matrix)
    todo,        \* backward_phase: the pivots still to be processed, in processing order
    ops,         \* the row operations printed so far, in order
    err,         \* the exception that ended the call, or "none"
    verdict,     \* solve_system: the branch it took (the verdict printed), or "none"
    particular,  \* solve_system: the solution / particular solution vector
    directions,  \* solve_system: the list of (free column, direction vector)
    runs         \* number of backward_phase calls made on the matrix

vars == <<call, input, matrix, pc, cols, pivot_row, col, r, pivots, todo, ops,
          err, verdict, particular, directions, runs>>

---------------------------------------------------------------------------
(* Bounds of the model.                                                    *)

MaxRows == 3
MaxCols == 4
MaxCells == 9
MaxJag == 3
MaxRuns == 2

\* The integers an input grid is filled with.
Vals == {0, 1, 2}

---------------------------------------------------------------------------
(* Exact fractions.                                                        *)

Abs(x) == IF x < 0 THEN -x ELSE x

Min(a, b) == IF a <= b THEN a ELSE b

RECURSIVE GCD(_, _)
GCD(a, b) == IF b = 0 THEN a ELSE GCD(b, a % b)

\* Fraction(n, d), d # 0: lowest terms, sign in the numerator.
Fraction(n, d) ==
    LET g == GCD(Abs(n), Abs(d))
        s == IF d < 0 THEN -1 ELSE 1
    IN  <<(s * n) \div g, (s * d) \div g>>

Zero == Fraction(0, 1)
One == Fraction(1, 1)

FSub(a, b) == Fraction(a[1] * b[2] - b[1] * a[2], a[2] * b[2])
FMul(a, b) == Fraction(a[1] * b[1], a[2] * b[2])
\* a / b for b # 0; the callers raise ZeroDivisionError themselves when b = 0.
FDiv(a, b) == Fraction(a[1] * b[2], a[2] * b[1])
FNeg(a) == <<-a[1], a[2]>>

---------------------------------------------------------------------------
(* Lists of lists.                                                         *)

At(m, i, j) == m[i + 1][j + 1]
RowLen(m, i) == Len(m[i + 1])

\* [[Fraction(val) for val in row] for row in matrix]
ToFractions(grid) ==
    [i \in 1..Len(grid) |-> [j \in 1..Len(grid[i]) |-> Fraction(grid[i][j], 1)]]

\* matrix[a], matrix[b] = matrix[b], matrix[a]
SwapRows(m, a, b) ==
    [i \in 1..Len(m) |-> IF i = a + 1 THEN m[b + 1]
                         ELSE IF i = b + 1 THEN m[a + 1] ELSE m[i]]

\* RowReplace with += written for -=.
RowReplaceAdd(m, target, source, factor, ncols) ==
    LET t == m[target + 1]
        s == m[source + 1]
        n == Min(ncols, Min(Len(t), Len(s)))
    IN  [m |-> [m EXCEPT ![target + 1] =
                   [c \in 1..Len(t) |-> IF c <= n
                                        THEN FSub(t[c], FMul(FNeg(factor), s[c]))
                                        ELSE t[c]]],
         err |-> IF n < ncols THEN "IndexError" ELSE "none"]

\* for c in range(cols): matrix[target][c] -= factor * matrix[source][c]
\* The loop stops with IndexError at the first c that either row lacks; the
\* entries before it are already replaced.
RowReplace(m, target, source, factor, ncols) ==
    LET t == m[target + 1]
        s == m[source + 1]
        n == Min(ncols, Min(Len(t), Len(s)))
    IN  [m |-> [m EXCEPT ![target + 1] =
                   [c \in 1..Len(t) |-> IF c <= n THEN FSub(t[c], FMul(factor, s[c]))
                                        ELSE t[c]]],
         err |-> IF n < ncols THEN "IndexError" ELSE "none"]

\* RowScale with *= written for /=.
RowScaleMul(m, row, scale, ncols) ==
    LET t == m[row + 1]
        n == Min(ncols, Len(t))
    IN  [m |-> [m EXCEPT ![row + 1] =
                   [c \in 1..Len(t) |-> IF c <= n THEN FMul(t[c], scale) ELSE t[c]]],
         err |-> IF n < ncols THEN "IndexError" ELSE "none"]

\* for c in range(cols): matrix[row][c] /= scale
\* matrix[row][c] is loaded before the division: IndexError comes first on a
\* short row, ZeroDivisionError on a zero scale.
RowScale(m, row, scale, ncols) ==
    LET t == m[row + 1]
        n == Min(ncols, Len(t))
    IN  IF n >= 1 /\ scale = Zero
        THEN [m |-> m, err |-> "ZeroDivisionError"]
        ELSE [m |-> [m EXCEPT ![row + 1] =
                        [c \in 1..Len(t) |-> IF c <= n THEN FDiv(t[c], scale) ELSE t[c]]],
              err |-> IF n < ncols THEN "IndexError" ELSE "none"]

---------------------------------------------------------------------------
(* forward_phase                                                           *)

\* FirstNonzero without the search: the cursor row is taken as it is.
FirstNonzeroNoSearch(m, j, i) ==
    IF i >= Len(m) THEN -1
    ELSE IF RowLen(m, i) <= j THEN -2
    ELSE i

\* Step 1, the search loop from row i: the first row at or below i with a
\* nonzero entry in column j; -1 for None; -2 when matrix[i][j] raises
\* IndexError before a nonzero entry is found.
RECURSIVE FirstNonzero(_, _, _)
FirstNonzero(m, j, i) ==
    IF i >= Len(m) THEN -1
    ELSE IF RowLen(m, i) <= j THEN -2
    ELSE IF At(m, i, j) # Zero THEN i
    ELSE FirstNonzero(m, j, i + 1)

\* Step 3, the loop over the rows below the cursor, from row i on.
RECURSIVE EliminateBelow(_, _, _, _, _, _)
EliminateBelow(m, ncols, prow, j, i, log) ==
    IF i >= Len(m) THEN [m |-> m, ops |-> log, err |-> "none"]
    ELSE IF RowLen(m, i) <= j THEN [m |-> m, ops |-> log, err |-> "IndexError"]
    ELSE IF At(m, i, j) = Zero THEN EliminateBelow(m, ncols, prow, j, i + 1, log)
    ELSE IF At(m, prow, j) = Zero THEN [m |-> m, ops |-> log, err |-> "ZeroDivisionError"]
    ELSE LET factor == FDiv(At(m, i, j), At(m, prow, j))
             rep == RowReplace(m, i, prow, factor, ncols)
         IN  IF rep.err # "none" THEN [m |-> rep.m, ops |-> log, err |-> rep.err]
             ELSE EliminateBelow(rep.m, ncols, prow, j, i + 1,
                                 Append(log, <<"Replace", i, prow, factor>>))

\* One iteration of `for col in range(cols)` past the break test.
ForwardColumn(m, ncols, prow, j, log) ==
    LET nz == FirstNonzero(m, j, prow)
    IN  IF nz = -2 THEN [m |-> m, pivot_row |-> prow, ops |-> log, err |-> "IndexError"]
        ELSE IF nz = -1 THEN [m |-> m, pivot_row |-> prow, ops |-> log, err |-> "none"]
        ELSE LET swapped == IF nz # prow THEN SwapRows(m, prow, nz) ELSE m
                 log1 == IF nz # prow THEN Append(log, <<"Swap", prow, nz>>) ELSE log
                 el == EliminateBelow(swapped, ncols, prow, j, prow + 1, log1)
             IN  [m |-> el.m, ops |-> el.ops, err |-> el.err,
                  pivot_row |-> IF el.err = "none" THEN prow + 1 ELSE prow]

RECURSIVE ForwardLoop(_, _, _, _, _)
ForwardLoop(m, ncols, prow, j, log) ==
    IF j >= ncols \/ prow >= Len(m) THEN [m |-> m, ops |-> log, err |-> "none"]
    ELSE LET st == ForwardColumn(m, ncols, prow, j, log)
         IN  IF st.err # "none" THEN [m |-> st.m, ops |-> st.ops, err |-> st.err]
             ELSE ForwardLoop(st.m, ncols, st.pivot_row, j + 1, st.ops)

\* forward_phase(matrix): the matrix as left by the call, the operations printed
\* and the exception raised, if any.
forward_phase(m) ==
    IF Len(m) = 0 THEN [m |-> m, ops |-> <<>>, err |-> "IndexError"]
    ELSE ForwardLoop(m, Len(m[1]), 0, 0, <<>>)

---------------------------------------------------------------------------
(* find_pivots                                                             *)

\* The column of the first nonzero entry of a row, -1 when the row has none.
RECURSIVE LeadingCol(_, _)
LeadingCol(row, j) ==
    IF j >= Len(row) THEN -1
    ELSE IF row[j + 1] # Zero THEN j
    ELSE LeadingCol(row, j + 1)

RECURSIVE PivotsFrom(_, _)
PivotsFrom(m, i) ==
    IF i >= Len(m) THEN <<>>
    ELSE LET c == LeadingCol(m[i + 1], 0)
         IN  IF c = -1 THEN PivotsFrom(m, i + 1)
             ELSE <<<<i, c>>>> \o PivotsFrom(m, i + 1)

find_pivots(m) == PivotsFrom(m, 0)

---------------------------------------------------------------------------
(* backward_phase                                                          *)

RECURSIVE Reverse(_)
Reverse(s) == IF s = <<>> THEN <<>> ELSE Append(Reverse(Tail(s)), Head(s))

\* PivotOrder without reversed(): the pivots taken top to bottom.
PivotOrderForward(ps) == ps

\* reversed(pivots): the order in which the pivots are processed.
PivotOrder(ps) == Reverse(ps)

\* ScalePivot with step 5-1 left out.
ScalePivotSkipped(m, ncols, prow, pcol, log) == [m |-> m, ops |-> log, err |-> "none"]

\* ScalePivot without the test pivot_val != 1: every pivot row is scaled.
ScalePivotAlways(m, ncols, prow, pcol, log) ==
    LET pivot_val == At(m, prow, pcol)
        sc == RowScale(m, prow, pivot_val, ncols)
    IN  [m |-> sc.m, err |-> sc.err,
         ops |-> IF sc.err = "none"
                 THEN Append(log, <<"Scale", prow, pivot_val>>) ELSE log]

\* Step 5-1 for the pivot at (prow, pcol).
ScalePivot(m, ncols, prow, pcol, log) ==
    LET pivot_val == At(m, prow, pcol)
    IN  IF pivot_val = One THEN [m |-> m, ops |-> log, err |-> "none"]
        ELSE LET sc == RowScale(m, prow, pivot_val, ncols)
             IN  [m |-> sc.m, err |-> sc.err,
                  ops |-> IF sc.err = "none"
                          THEN Append(log, <<"Scale", prow, pivot_val>>) ELSE log]

\* EliminateAbove with the replacement left out.
EliminateAboveSkipped(m, ncols, prow, pcol, i, log) ==
    IF RowLen(m, i) <= pcol THEN [m |-> m, ops |-> log, err |-> "IndexError"]
    ELSE [m |-> m, ops |-> log, err |-> "none"]

\* One iteration of step 5-2, on row i above the pivot at (prow, pcol).
EliminateAbove(m, ncols, prow, pcol, i, log) ==
    IF RowLen(m, i) <= pcol THEN [m |-> m, ops |-> log, err |-> "IndexError"]
    ELSE IF At(m, i, pcol) = Zero THEN [m |-> m, ops |-> log, err |-> "none"]
    ELSE LET factor == At(m, i, pcol)
             rep == RowReplace(m, i, prow, factor, ncols)
         IN  [m |-> rep.m, err |-> rep.err,
              ops |-> IF rep.err = "none"
                      THEN Append(log, <<"Replace", i, prow, factor>>) ELSE log]

RECURSIVE AboveLoop(_, _, _, _, _, _)
AboveLoop(m, ncols, prow, pcol, i, log) ==
    IF i < 0 THEN [m |-> m, ops |-> log, err |-> "none"]
    ELSE LET st == EliminateAbove(m, ncols, prow, pcol, i, log)
         IN  IF st.err # "none" THEN st
             ELSE AboveLoop(st.m, ncols, prow, pcol, i - 1, st.ops)

RECURSIVE BackwardLoop(_, _, _, _)
BackwardLoop(m, ncols, rest, log) ==
    IF rest = <<>> THEN [m |-> m, ops |-> log, err |-> "none"]
    ELSE LET p == Head(rest)
             sc == ScalePivot(m, ncols, p[1], p[2], log)
         IN  IF sc.err # "none" THEN sc
             ELSE LET ab == AboveLoop(sc.m, ncols, p[1], p[2], p[1] - 1, sc.ops)
                  IN  IF ab.err # "none" THEN ab
                      ELSE BackwardLoop(ab.m, ncols, Tail(rest), ab.ops)

\* backward_phase(matrix): the matrix as left by the call, the operations printed
\* and the exception raised, if any.
backward_phase(m) ==
    IF Len(m) = 0 THEN [m |-> m, ops |-> <<>>, err |-> "IndexError"]
    ELSE BackwardLoop(m, Len(m[1]), PivotOrder(find_pivots(m)), <<>>)

---------------------------------------------------------------------------
(* solve_system                                                            *)

SetMin(S) == CHOOSE x \in S : \A y \in S : x <= y
SetMax(S) == CHOOSE x \in S : \A y \in S : x >= y

\* sorted(S) for a set of integers
RECURSIVE Sorted(_)
Sorted(S) == IF S = {} THEN <<>> ELSE <<SetMin(S)>> \o Sorted(S \ {SetMin(S)})

\* {c for _, c in pivots}
PivotCols(ps) == {ps[k][2] : k \in 1..Len(ps)}

\* {c: r for r, c in pivots if c < num_vars}[c]: a later pair replaces an earlier one
ColToRow(ps, c) == ps[SetMax({k \in 1..Len(ps) : ps[k][2] = c})][1]

\* (total_cols - 1) in pivot_cols
RightmostIsPivot(ps, total_cols) == (total_cols - 1) \in PivotCols(ps)

\* sorted(c for c in pivot_cols if c < num_vars), as a set
BasicCols(ps, num_vars) == {c \in PivotCols(ps) : c < num_vars}

\* FreeCols with range(total_cols) written for range(num_vars).
FreeColsAll(ps, num_vars) == {c \in 0..num_vars : c \notin PivotCols(ps)}

\* sorted(c for c in range(num_vars) if c not in pivot_cols), as a set
FreeCols(ps, num_vars) == {c \in 0..(num_vars - 1) : c \notin PivotCols(ps)}

\* particular = [0] * num_vars; particular[c] = matrix[col_to_row[c]][total_cols - 1].
\* With no free column this is the vector printed as the solution.
Particular(m, ps, num_vars) ==
    [i \in 1..num_vars |->
        IF (i - 1) \in BasicCols(ps, num_vars)
        THEN At(m, ColToRow(ps, i - 1), num_vars)
        ELSE Zero]

\* Direction without the negation of the matrix entry.
DirectionNotNegated(m, ps, num_vars, fc) ==
    [i \in 1..num_vars |->
        IF (i - 1) \in {c \in PivotCols(ps) : c < num_vars}
        THEN At(m, ps[SetMax({k \in 1..Len(ps) : ps[k][2] = i - 1})][1], fc)
        ELSE IF i - 1 = fc THEN One ELSE Zero]

\* d = [0] * num_vars; d[fc] = 1; d[c] = -matrix[col_to_row[c]][fc]
Direction(m, ps, num_vars, fc) ==
    [i \in 1..num_vars |->
        IF (i - 1) \in BasicCols(ps, num_vars)
        THEN FNeg(At(m, ColToRow(ps, i - 1), fc))
        ELSE IF i - 1 = fc THEN One ELSE Zero]

\* solve_system(matrix): the branch taken (the verdict it printed), the
\* vectors built and the exception raised, if any.  The branch is chosen and
\* its verdict printed (lines 160-163, 185-187, 203-205) before any row is
\* read.  The loop printing the equations (lines 190-193, 209-225) then reads
\* every basic row r at matrix[r][total_cols - 1] (and at the free columns),
\* which raises IndexError on a shorter row, before any vector is built.
solve_system(m) ==
    IF Len(m) = 0
    THEN [verdict |-> "none", particular |-> <<>>, directions |-> <<>>, err |-> "IndexError"]
    ELSE
    LET ps == find_pivots(m)
        total_cols == Len(m[1])
        num_vars == total_cols - 1
        short == \E c \in BasicCols(ps, num_vars) :
                     RowLen(m, ColToRow(ps, c)) < total_cols
        fs == Sorted(FreeCols(ps, num_vars))
        branch == IF fs = <<>> THEN "Unique" ELSE "Infinite"
    IN  IF RightmostIsPivot(ps, total_cols)
        THEN [verdict |-> "Inconsistent", particular |-> <<>>, directions |-> <<>>,
              err |-> "none"]
        ELSE IF short
        THEN [verdict |-> branch, particular |-> <<>>, directions |-> <<>>,
              err |-> "IndexError"]
        ELSE IF fs = <<>>
        THEN [verdict |-> "Unique", particular |-> Particular(m, ps, num_vars),
              directions |-> <<>>, err |-> "none"]
        ELSE [verdict |-> "Infinite", particular |-> Particular(m, ps, num_vars),
              directions |-> [k \in 1..Len(fs) |->
                                 <<fs[k], Direction(m, ps, num_vars, fs[k])>>],
              err |-> "none"]

---------------------------------------------------------------------------
(* row_reduce                                                              *)

NoSolution == [verdict |-> "none", particular |-> <<>>, directions |-> <<>>]

\* row_reduce(matrix, augmented) as one function: the matrix at return (or at
\* the exception), the operations printed, what solve_system found, and the
\* exception raised, if any.
row_reduce(grid, augmented) ==
    LET fw == forward_phase(ToFractions(grid))
    IN  IF fw.err # "none"
        THEN [m |-> fw.m, ops |-> fw.ops, err |-> fw.err, solution |-> NoSolution]
        ELSE
        LET bw == backward_phase(fw.m)
            sv == solve_system(bw.m)
        IN  IF bw.err # "none" \/ ~augmented
            THEN [m |-> bw.m, ops |-> fw.ops \o bw.ops, err |-> bw.err,
                  solution |-> NoSolution]
            ELSE [m |-> bw.m, ops |-> fw.ops \o bw.ops, err |-> sv.err,
                  solution |-> [verdict |-> sv.verdict, particular |-> sv.particular,
                                directions |-> sv.directions]]

---------------------------------------------------------------------------
(* Inputs.                                                                 *)

\* The grids of nr rows and nc columns over Vals, within the bounds.
RectGrids ==
    UNION {[1..nr -> [1..nc -> Vals]] :
             <<nr, nc>> \in {s \in (1..MaxRows) \X (1..MaxCols) : s[1] * s[2] <= MaxCells}}

IsRectangular(grid) ==
    /\ Len(grid) >= 1
    /\ Len(grid[1]) >= 1
    /\ \A i \in 1..Len(grid) : Len(grid[i]) = Len(grid[1])

ShortRows == UNION {[1..n -> Vals] : n \in 0..MaxJag}

\* Grids of at most two rows that are empty, have no column, or are jagged.
MalformedGrids ==
    {g \in {<<>>} \cup {<<a>> : a \in ShortRows}
                  \cup {<<a, b>> : <<a, b>> \in ShortRows \X ShortRows} :
       ~IsRectangular(g)}

ScenarioA == <<<<1, 0, 2>>, <<0, 0, 5>>>>
ScenarioB == <<<<2, 1, 0, 3>>, <<1, -1, 2, 1>>, <<0, 1, 1, 2>>>>
ScenarioC == <<<<1, 2, -1, 1>>, <<2, 4, -2, 2>>>>
ScenarioD == <<<<0, 2, 4>>, <<1, 1, 1>>>>
Scenarios == {ScenarioA, ScenarioB, ScenarioC, ScenarioD}

---------------------------------------------------------------------------
(* row_reduce(matrix, augmented) as a state machine.                       *)

Init ==
    /\ call = "row_reduce"
    /\ input \in RectGrids \cup MalformedGrids \cup Scenarios
    /\ matrix = input
    /\ pc = "start"
    /\ cols = 0 /\ pivot_row = 0 /\ col = 0 /\ r = 0
    /\ pivots = <<>> /\ todo = <<>> /\ ops = <<>>
    /\ err = "none" /\ verdict = "none"
    /\ particular = <<>> /\ directions = <<>>
    /\ runs = 0

\* row_reduce up to the first iteration of forward_phase: the conversion to
\* Fraction, then rows, cols and pivot_row of forward_phase.
RowReduceStart ==
    /\ call = "row_reduce" /\ pc = "start"
    /\ matrix' = ToFractions(input)
    /\ IF Len(input) = 0
       THEN /\ err' = "IndexError" /\ pc' = "error"
            /\ cols' = cols
       ELSE /\ err' = err
            /\ cols' = Len(input[1])
            /\ pc' = IF Len(input[1]) = 0 THEN "echelon" ELSE "forward"
    /\ pivot_row' = 0 /\ col' = 0
    /\ UNCHANGED <<call, input, r, pivots, todo, ops, verdict, particular,
                   directions, runs>>

\* forward_phase: one iteration of the loop over the columns.
ForwardStep ==
    /\ pc = "forward"
    /\ LET st == ForwardColumn(matrix, cols, pivot_row, col, ops)
       IN  /\ matrix' = st.m
           /\ ops' = st.ops
           /\ err' = st.err
           /\ pivot_row' = st.pivot_row
           /\ col' = IF st.err = "none" THEN col + 1 ELSE col
           /\ pc' = IF st.err # "none" THEN "error"
                    ELSE IF col + 1 >= cols \/ st.pivot_row >= Len(matrix)
                         THEN "echelon" ELSE "forward"
    /\ UNCHANGED <<call, input, cols, r, pivots, todo, verdict, particular,
                   directions, runs>>

\* The entry of backward_phase: pivots, cols, and the iterator over
\* reversed(pivots).
EnterBackward ==
    /\ runs' = runs + 1
    /\ pivots' = find_pivots(matrix)
    /\ IF Len(matrix) = 0
       THEN /\ err' = "IndexError" /\ pc' = "error"
            /\ UNCHANGED <<cols, todo>>
       ELSE /\ err' = err
            /\ cols' = Len(matrix[1])
            /\ todo' = PivotOrder(find_pivots(matrix))
            /\ pc' = IF find_pivots(matrix) = <<>> THEN "reduced" ELSE "scale"
    /\ UNCHANGED <<call, input, matrix, pivot_row, col, r, ops, verdict,
                   particular, directions>>

\* backward_phase is entered: from row_reduce on the echelon form, or called
\* on a matrix directly.
BackwardStart ==
    /\ \/ call = "row_reduce" /\ pc = "echelon"
       \/ call = "backward_phase" /\ pc = "start"
    /\ EnterBackward

\* What follows the last iteration of step 5-2 for the pivot Head(todo).
NextPivotPc == IF Tail(todo) = <<>> THEN "reduced" ELSE "scale"

\* backward_phase, step 5-1 for the next pivot of reversed(pivots).
BackwardScale ==
    /\ pc = "scale"
    /\ LET p == Head(todo)
           st == ScalePivot(matrix, cols, p[1], p[2], ops)
       IN  /\ pivot_row' = p[1]
           /\ col' = p[2]
           /\ matrix' = st.m
           /\ ops' = st.ops
           /\ err' = st.err
           /\ r' = p[1] - 1
           /\ IF st.err # "none" THEN pc' = "error" /\ todo' = todo
              ELSE IF p[1] - 1 >= 0 THEN pc' = "elim" /\ todo' = todo
              ELSE pc' = NextPivotPc /\ todo' = Tail(todo)
    /\ UNCHANGED <<call, input, cols, pivots, verdict, particular, directions, runs>>

\* backward_phase, one iteration of step 5-2 (row r above the pivot).
BackwardElim ==
    /\ pc = "elim"
    /\ LET st == EliminateAbove(matrix, cols, pivot_row, col, r, ops)
       IN  /\ matrix' = st.m
           /\ ops' = st.ops
           /\ err' = st.err
           /\ IF st.err # "none" THEN pc' = "error" /\ todo' = todo /\ r' = r
              ELSE IF r - 1 >= 0 THEN pc' = "elim" /\ todo' = todo /\ r' = r - 1
              ELSE pc' = NextPivotPc /\ todo' = Tail(todo) /\ r' = r - 1
    /\ UNCHANGED <<call, input, cols, pivot_row, col, pivots, verdict, particular,
                   directions, runs>>

\* row_reduce after backward_phase: solve_system when augmented, then return.
RowReduceFinish ==
    /\ call = "row_reduce" /\ pc = "reduced"
    /\ \E augmented \in BOOLEAN :
         IF augmented
         THEN LET sv == solve_system(matrix)
              IN  /\ verdict' = sv.verdict
                  /\ particular' = sv.particular
                  /\ directions' = sv.directions
                  /\ err' = sv.err
                  /\ pc' = IF sv.err = "none" THEN "solved" ELSE "solve_error"
         ELSE /\ pc' = "returned"
              /\ UNCHANGED <<verdict, particular, directions, err>>
    /\ UNCHANGED <<call, input, matrix, cols, pivot_row, col, r, pivots, todo, ops,
                   runs>>

Next ==
    \/ RowReduceStart
    \/ ForwardStep
    \/ BackwardStart
    \/ BackwardScale
    \/ BackwardElim
    \/ RowReduceFinish

Spec == Init /\ [][Next]_vars

---------------------------------------------------------------------------
(* backward_phase called directly on a matrix of fractions, and called     *)
(* again on its result.                                                    *)

InitBackward ==
    /\ call = "backward_phase"
    /\ input \in RectGrids \cup Scenarios
    /\ matrix = ToFractions(input)
    /\ pc = "start"
    /\ cols = 0 /\ pivot_row = 0 /\ col = 0 /\ r = 0
    /\ pivots = <<>> /\ todo = <<>> /\ ops = <<>>
    /\ err = "none" /\ verdict = "none"
    /\ particular = <<>> /\ directions = <<>>
    /\ runs = 0

\* backward_phase(backward_phase(matrix)): the second call, on the result.
BackwardAgain ==
    /\ call = "backward_phase" /\ pc = "reduced"
    /\ runs < MaxRuns
    /\ EnterBackward

NextBackward ==
    \/ BackwardStart
    \/ BackwardScale
    \/ BackwardElim
    \/ BackwardAgain

SpecBackward == InitBackward /\ [][NextBackward]_vars

---------------------------------------------------------------------------
(* Vocabulary of the properties.                                           *)

\* The column of the leading (first nonzero) entry of row i, -1 for a zero row.
Lead(m, i) == LeadingCol(m[i + 1], 0)

RowIndices(m) == 0..(Len(m) - 1)
NonzeroRows(m) == {i \in RowIndices(m) : Lead(m, i) # -1}

LeadingOnes(m) == \A i \in NonzeroRows(m) : At(m, i, Lead(m, i)) = One

LeadsIncrease(m) ==
    \A i, k \in NonzeroRows(m) : i < k => Lead(m, i) < Lead(m, k)

LeadColumnsClear(m) ==
    \A i \in NonzeroRows(m) : \A k \in RowIndices(m) :
        k # i => At(m, k, Lead(m, i)) = Zero

ZeroRowsLast(m) ==
    \A i, k \in RowIndices(m) : (i < k /\ Lead(m, i) = -1) => Lead(m, k) = -1

IsEchelon(m) == IsRectangular(m) /\ LeadsIncrease(m) /\ ZeroRowsLast(m)

IsRREF(m) == IsEchelon(m) /\ LeadingOnes(m) /\ LeadColumnsClear(m)

\* Column c holds the leading entry of some row.
IsPivotColumn(m, c) == \E i \in RowIndices(m) : Lead(m, i) = c

\* The row whose leading entry is in column c.
PivotRowOf(m, c) == CHOOSE i \in RowIndices(m) : Lead(m, i) = c

NumVars(m) == Len(m[1]) - 1
VarCols(m) == 0..(NumVars(m) - 1)
FreeVars(m) == {c \in VarCols(m) : ~IsPivotColumn(m, c)}
BasicVars(m) == {c \in VarCols(m) : IsPivotColumn(m, c)}

AfterBackward == {"reduced", "returned", "solved"}

OpsOfKind(kind) == {k \in 1..Len(ops) : ops[k][1] = kind}

---------------------------------------------------------------------------
(* Properties of row_reduce (specification Spec).                          *)

\* C1: for every rectangular matrix, forward_phase then backward_phase end
\* without an exception in a matrix where (i) the first nonzero entry of every
\* nonzero row is exactly 1, (ii) the columns of these leading entries strictly
\* increase with the row index, and (iii) a leading entry is the only nonzero
\* entry of its column.
Thm_C1 ==
    (call = "row_reduce" /\ IsRectangular(input)) =>
        /\ pc # "error"
        /\ pc \in AfterBackward =>
              /\ LeadingOnes(matrix)
              /\ LeadsIncrease(matrix)
              /\ LeadColumnsClear(matrix)

Wit_C1 ==
    /\ call = "row_reduce" /\ IsRectangular(input) /\ pc = "returned"
    /\ Len(find_pivots(matrix)) = 3
    /\ OpsOfKind("Swap") # {} /\ OpsOfKind("Scale") # {}
    /\ Cardinality(OpsOfKind("Replace")) >= 4

\* C2: on an augmented matrix in reduced echelon form (one column included),
\* solve_system raises nothing and takes exactly one branch: Inconsistent
\* exactly when the last column is a pivot column; otherwise Unique exactly
\* when every variable column is a pivot column; otherwise Infinite.
Thm_C2 ==
    (call = "row_reduce" /\ pc \in {"solved", "solve_error"} /\ IsRREF(matrix)) =>
        /\ pc = "solved" /\ err = "none"
        /\ verdict \in {"Inconsistent", "Unique", "Infinite"}
        /\ verdict = "Inconsistent" <=> IsPivotColumn(matrix, NumVars(matrix))
        /\ verdict = "Unique" <=>
              /\ ~IsPivotColumn(matrix, NumVars(matrix))
              /\ \A c \in VarCols(matrix) : IsPivotColumn(matrix, c)
        /\ verdict = "Infinite" <=>
              /\ ~IsPivotColumn(matrix, NumVars(matrix))
              /\ \E c \in VarCols(matrix) : ~IsPivotColumn(matrix, c)

Wit_C2 ==
    /\ call = "row_reduce" /\ pc = "solved" /\ IsRREF(matrix)
    /\ verdict = "Unique"
    /\ Len(matrix) = 3 /\ NumVars(matrix) = 2
    /\ \E i \in 1..2 : particular[i][2] # 1

\* C3: when solve_system finds infinitely many solutions on a reduced echelon
\* form, the particular vector is 0 at every free variable and RREF[r][last]
\* at every basic variable with pivot row r; there is exactly one direction
\* vector per free variable f, listed by increasing f, with 1 at f,
\* -RREF[r][f] at every basic variable with pivot row r, and 0 at every other
\* free variable.  On [[1,2,-1,1],[2,4,-2,2]] the particular vector is [1,0,0]
\* and the directions are (1,[-2,1,0]) and (2,[1,0,1]).
Thm_C3 ==
    /\ (call = "row_reduce" /\ pc = "solved" /\ verdict = "Infinite" /\ IsRREF(matrix)) =>
          LET n == NumVars(matrix) IN
          /\ Len(particular) = n
          /\ \A c \in FreeVars(matrix) : particular[c + 1] = Zero
          /\ \A c \in BasicVars(matrix) :
                particular[c + 1] = At(matrix, PivotRowOf(matrix, c), n)
          /\ Len(directions) = Cardinality(FreeVars(matrix))
          /\ {directions[k][1] : k \in 1..Len(directions)} = FreeVars(matrix)
          /\ \A k \in 1..(Len(directions) - 1) : directions[k][1] < directions[k + 1][1]
          /\ \A k \in 1..Len(directions) :
                LET f == directions[k][1]
                    d == directions[k][2]
                IN  /\ Len(d) = n
                    /\ d[f + 1] = One
                    /\ \A c \in BasicVars(matrix) :
                          d[c + 1] = FSub(Zero, At(matrix, PivotRowOf(matrix, c), f))
                    /\ \A c \in FreeVars(matrix) \ {f} : d[c + 1] = Zero
    /\ (call = "row_reduce" /\ input = ScenarioC /\ pc = "solved") =>
          /\ verdict = "Infinite"
          /\ particular = <<One, Zero, Zero>>
          /\ directions = << <<1, <<Fraction(-2, 1), One, Zero>> >>,
                             <<2, <<One, Zero, One>> >> >>

Wit_C3 ==
    /\ call = "row_reduce" /\ pc = "solved" /\ verdict = "Infinite" /\ IsRREF(matrix)
    /\ input \notin Scenarios
    /\ Len(directions) = 2
    /\ Cardinality(BasicVars(matrix)) = 1
    /\ \E c \in BasicVars(matrix) : directions[2][2][c + 1][2] # 1
    /\ \E c \in BasicVars(matrix) : particular[c + 1] # Zero

\* The row permutations of a matrix of n rows, and the matrix permuted.
RowPermutations(n) == {p \in [1..n -> 1..n] : \A a, b \in 1..n : p[a] = p[b] => a = b}
Permuted(m, p) == [i \in 1..Len(m) |-> m[p[i]]]

\* C4: for every rectangular matrix M, find_pivots after forward_phase(M)
\* finds at most min(rows, cols) pivots, and the same number for every row
\* permutation of M.
Thm_C4 ==
    (call = "row_reduce" /\ IsRectangular(input) /\ pc = "echelon") =>
        LET n == Len(find_pivots(matrix)) IN
        /\ n <= Min(Len(input), Len(input[1]))
        /\ \A p \in RowPermutations(Len(input)) :
              LET fw == forward_phase(Permuted(ToFractions(input), p))
              IN  fw.err = "none" /\ Len(find_pivots(fw.m)) = n

Wit_C4 ==
    /\ call = "row_reduce" /\ IsRectangular(input) /\ pc = "echelon"
    /\ Len(input) = 3
    /\ Len(find_pivots(matrix)) = 2
    /\ OpsOfKind("Swap") # {} /\ OpsOfKind("Replace") # {}
    /\ \E p \in RowPermutations(3) :
          forward_phase(Permuted(ToFractions(input), p)).m # matrix

\* C6 as stated: row_reduce rejects every grid that is empty, has no column
\* or has rows of unequal length with a ShapeError, before any swap, replace
\* or scale.
Claim_C6 ==
    (call = "row_reduce" /\ ~IsRectangular(input) /\ pc # "start") =>
        /\ pc = "error" /\ err = "ShapeError"
        /\ ops = <<>>

\* C7 as stated: on [[1,0,2],[0,0,5]] the reduced echelon form is
\* [[1,0,2],[0,0,1]] and solve_system finds the system inconsistent.
Claim_C7 ==
    (call = "row_reduce" /\ input = ScenarioA) =>
        /\ pc \in AfterBackward => matrix = ToFractions(<<<<1, 0, 2>>, <<0, 0, 1>>>>)
        /\ pc = "solved" => verdict = "Inconsistent"

\* C7, amended: on [[1,0,2],[0,0,5]] forward_phase then backward_phase give
\* [[1,0,0],[0,0,1]] (the 2 above the pivot of the last column is eliminated)
\* and solve_system finds the system inconsistent.
Thm_C7 ==
    (call = "row_reduce" /\ input = ScenarioA) =>
        /\ pc \notin {"error", "solve_error"}
        /\ pc \in AfterBackward => matrix = ToFractions(<<<<1, 0, 0>>, <<0, 0, 1>>>>)
        /\ pc = "solved" => verdict = "Inconsistent"

Wit_C7 == call = "row_reduce" /\ input = ScenarioA /\ pc = "solved"

\* C8 as stated: on [[2,1,0,3],[1,-1,2,1],[0,1,1,2]] row_reduce with
\* augmented=True finds a unique solution, [1,1,1].
Claim_C8 ==
    (call = "row_reduce" /\ input = ScenarioB /\ pc = "solved") =>
        /\ verdict = "Unique"
        /\ particular = <<One, One, One>>

\* C8, amended: on [[2,1,0,3],[1,-1,2,1],[0,1,1,2]] row_reduce with
\* augmented=True finds a unique solution, read from the last column of the
\* reduced echelon form at each variable's pivot row: [6/7, 9/7, 5/7].
Thm_C8 ==
    (call = "row_reduce" /\ input = ScenarioB) =>
        /\ pc \notin {"error", "solve_error"}
        /\ pc = "solved" =>
              /\ verdict = "Unique"
              /\ particular = <<Fraction(6, 7), Fraction(9, 7), Fraction(5, 7)>>
              /\ \A c \in VarCols(matrix) :
                    particular[c + 1] = At(matrix, PivotRowOf(matrix, c), NumVars(matrix))

Wit_C8 == call = "row_reduce" /\ input = ScenarioB /\ pc = "solved"

\* C10: for every rectangular matrix no division of row_reduce has a zero
\* divisor: neither factor = matrix[r][col] / matrix[pivot_row][col] in
\* forward_phase nor the division of a row by pivot_val in backward_phase.
Thm_C10 ==
    (call = "row_reduce" /\ IsRectangular(input)) => err # "ZeroDivisionError"

Wit_C10 ==
    /\ call = "row_reduce" /\ IsRectangular(input) /\ pc = "reduced"
    /\ \E k \in OpsOfKind("Replace") : ops[k][2] > ops[k][3] /\ ops[k][4][2] # 1
    /\ \E k \in OpsOfKind("Scale") : ops[k][3][1] < 0

---------------------------------------------------------------------------
(* Properties of backward_phase called directly (specification            *)
(* SpecBackward).                                                          *)

\* C5: on a matrix already in reduced echelon form backward_phase scales no
\* row, replaces no row and returns the matrix it was given, entry by entry;
\* so does a second call on the result.
Thm_C5 ==
    (call = "backward_phase" /\ IsRREF(ToFractions(input))) =>
        /\ matrix = ToFractions(input)
        /\ ops = <<>>
        /\ err = "none"

Wit_C5 ==
    /\ call = "backward_phase" /\ IsRREF(ToFractions(input))
    /\ runs = 2 /\ pc = "reduced"
    /\ Len(pivots) = 2
    /\ \E i \in RowIndices(matrix) : \E c \in 0..(Len(matrix[1]) - 1) :
          At(matrix, i, c) \notin {Zero, One}

\* The pivots of the running call that have been processed.
Processed == {pivots[k] : k \in 1..Len(pivots)} \ {todo[k] : k \in 1..Len(todo)}

Column(m, c) == [i \in 1..Len(m) |-> m[i][c + 1]]

ProcessedDone ==
    \A p \in Processed :
        /\ At(matrix, p[1], p[2]) = One
        /\ \A i \in 0..(p[1] - 1) : At(matrix, i, p[2]) = Zero

\* C9: during backward_phase on an echelon form the pivots are processed in
\* strictly decreasing row and column order, a processed pivot is 1 with
\* zeros above it, and no later scale or replacement changes an entry of a
\* processed pivot's column.
Thm_C9 ==
    [][(call = "backward_phase" /\ IsEchelon(ToFractions(input))) =>
          /\ (runs' = runs /\ todo # <<>> /\ todo' # <<>> /\ todo' # todo) =>
                /\ Head(todo')[1] < Head(todo)[1]
                /\ Head(todo')[2] < Head(todo)[2]
          /\ ProcessedDone'
          /\ runs' = runs =>
                \A p \in Processed : Column(matrix', p[2]) = Column(matrix, p[2])
      ]_vars

Wit_C9 ==
    /\ call = "backward_phase" /\ IsEchelon(ToFractions(input))
    /\ runs = 1 /\ pc = "scale"
    /\ Cardinality(Processed) = 2
    /\ Cardinality(OpsOfKind("Scale")) = 2
    /\ Cardinality(OpsOfKind("Replace")) = 3

====
